---------------------------- MODULE Spec2Model ----------------------------
(***************************************************************************)
(* Salesforce lead dashboard (src/Salesforce_streamlit.py): the session    *)
(* state kept in st.session_state, the script run main() performs on every *)
(* interaction, the five "All"-sentinel filter callbacks, the filter       *)
(* evaluation in filtering_section and the aggregations behind the charts. *)
(*                                                                         *)
(* Conventions.  A pandas frame is the sequence of its rows, each row a    *)
(* record of its columns.  None / NaN in a text column is the marker       *)
(* NoValue; NaN in a numeric cell is NaN.  A date is the integer yyyymmdd, *)
(* so that date order is integer order.  Python text is a TLA+ string;     *)
(* where the code looks inside a text (strip, upper, title) the text is    *)
(* taken through its spelling Chars[s], a sequence of characters.          *)
(***************************************************************************)
EXTENDS Integers, Sequences, FiniteSets, TLC

(***************************************************************************)
(* Helper data and mappings (lines 77-208).  Latitudes and longitudes are  *)
(* in millionths of a degree.                                              *)
(***************************************************************************)
ALLOWED_LEAD_SOURCES ==
    { "Indeed", "Google Leads - Website", "Website", "Customer Referral", "Self Generated" }

STATE_CENTROIDS ==
    ("AL" :> [lat |-> 32806671, lon |-> -86791130])
    @@ ("AK" :> [lat |-> 61370716, lon |-> -152404419])
    @@ ("AZ" :> [lat |-> 33729759, lon |-> -111431221])
    @@ ("AR" :> [lat |-> 34969704, lon |-> -92373123])
    @@ ("CA" :> [lat |-> 36116203, lon |-> -119681564])
    @@ ("CO" :> [lat |-> 39059811, lon |-> -105311104])
    @@ ("CT" :> [lat |-> 41597782, lon |-> -72755371])
    @@ ("DE" :> [lat |-> 39318523, lon |-> -75507141])
    @@ ("FL" :> [lat |-> 27766279, lon |-> -81686783])
    @@ ("GA" :> [lat |-> 33040619, lon |-> -83643074])
    @@ ("HI" :> [lat |-> 21094318, lon |-> -157498337])
    @@ ("ID" :> [lat |-> 44240459, lon |-> -114478828])
    @@ ("IL" :> [lat |-> 40349457, lon |-> -88986137])
    @@ ("IN" :> [lat |-> 39849426, lon |-> -86258278])
    @@ ("IA" :> [lat |-> 42011539, lon |-> -93210526])
    @@ ("KS" :> [lat |-> 38526600, lon |-> -96726486])
    @@ ("KY" :> [lat |-> 37668140, lon |-> -84670067])
    @@ ("LA" :> [lat |-> 31169546, lon |-> -91867805])
    @@ ("ME" :> [lat |-> 44693947, lon |-> -69381927])
    @@ ("MD" :> [lat |-> 39063946, lon |-> -76802101])
    @@ ("MA" :> [lat |-> 42230171, lon |-> -71530106])
    @@ ("MI" :> [lat |-> 43326618, lon |-> -84536095])
    @@ ("MN" :> [lat |-> 45694454, lon |-> -93900192])
    @@ ("MS" :> [lat |-> 32741646, lon |-> -89678696])
    @@ ("MO" :> [lat |-> 38456085, lon |-> -92288368])
    @@ ("MT" :> [lat |-> 46921925, lon |-> -110454353])
    @@ ("NE" :> [lat |-> 41125370, lon |-> -98268082])
    @@ ("NV" :> [lat |-> 38313515, lon |-> -117055374])
    @@ ("NH" :> [lat |-> 43452492, lon |-> -71563896])
    @@ ("NJ" :> [lat |-> 40298904, lon |-> -74521011])
    @@ ("NM" :> [lat |-> 34840515, lon |-> -106248482])
    @@ ("NY" :> [lat |-> 42165726, lon |-> -74948051])
    @@ ("NC" :> [lat |-> 35630066, lon |-> -79806419])
    @@ ("ND" :> [lat |-> 47528912, lon |-> -99784012])
    @@ ("OH" :> [lat |-> 40388783, lon |-> -82764915])
    @@ ("OK" :> [lat |-> 35565342, lon |-> -96928917])
    @@ ("OR" :> [lat |-> 44572021, lon |-> -122070938])
    @@ ("PA" :> [lat |-> 40590752, lon |-> -77209755])
    @@ ("RI" :> [lat |-> 41680893, lon |-> -71511780])
    @@ ("SC" :> [lat |-> 33856892, lon |-> -80945007])
    @@ ("SD" :> [lat |-> 44299782, lon |-> -99438828])
    @@ ("TN" :> [lat |-> 35747845, lon |-> -86692345])
    @@ ("TX" :> [lat |-> 31054487, lon |-> -97563461])
    @@ ("UT" :> [lat |-> 40150032, lon |-> -111862434])
    @@ ("VT" :> [lat |-> 44045876, lon |-> -72710686])
    @@ ("VA" :> [lat |-> 37769337, lon |-> -78169968])
    @@ ("WA" :> [lat |-> 47400902, lon |-> -121490494])
    @@ ("WV" :> [lat |-> 38491226, lon |-> -80954453])
    @@ ("WI" :> [lat |-> 44268543, lon |-> -89616508])
    @@ ("WY" :> [lat |-> 42755966, lon |-> -107302490])

FULL_STATE_NAMES == {
    "Alabama", "Alaska", "Arizona", "Arkansas", "California", "Colorado", "Connecticut",
    "Delaware", "Florida", "Georgia", "Hawaii", "Idaho", "Illinois", "Indiana", "Iowa",
    "Kansas", "Kentucky", "Louisiana", "Maine", "Maryland", "Massachusetts", "Michigan",
    "Minnesota", "Mississippi", "Missouri", "Montana", "Nebraska", "Nevada",
    "New Hampshire", "New Jersey", "New Mexico", "New York", "North Carolina",
    "North Dakota", "Ohio", "Oklahoma", "Oregon", "Pennsylvania", "Rhode Island",
    "South Carolina", "South Dakota", "Tennessee", "Texas", "Utah", "Vermont", "Virginia",
    "Washington", "West Virginia", "Wisconsin", "Wyoming", "Washington D.C." }

STATE_ABBR_TO_NAME ==
    ("AL" :> "Alabama")
    @@ ("AK" :> "Alaska")
    @@ ("AZ" :> "Arizona")
    @@ ("AR" :> "Arkansas")
    @@ ("CA" :> "California")
    @@ ("CO" :> "Colorado")
    @@ ("CT" :> "Connecticut")
    @@ ("DE" :> "Delaware")
    @@ ("FL" :> "Florida")
    @@ ("GA" :> "Georgia")
    @@ ("HI" :> "Hawaii")
    @@ ("ID" :> "Idaho")
    @@ ("IL" :> "Illinois")
    @@ ("IN" :> "Indiana")
    @@ ("IA" :> "Iowa")
    @@ ("KS" :> "Kansas")
    @@ ("KY" :> "Kentucky")
    @@ ("LA" :> "Louisiana")
    @@ ("ME" :> "Maine")
    @@ ("MD" :> "Maryland")
    @@ ("MA" :> "Massachusetts")
    @@ ("MI" :> "Michigan")
    @@ ("MN" :> "Minnesota")
    @@ ("MS" :> "Mississippi")
    @@ ("MO" :> "Missouri")
    @@ ("MT" :> "Montana")
    @@ ("NE" :> "Nebraska")
    @@ ("NV" :> "Nevada")
    @@ ("NH" :> "New Hampshire")
    @@ ("NJ" :> "New Jersey")
    @@ ("NM" :> "New Mexico")
    @@ ("NY" :> "New York")
    @@ ("NC" :> "North Carolina")
    @@ ("ND" :> "North Dakota")
    @@ ("OH" :> "Ohio")
    @@ ("OK" :> "Oklahoma")
    @@ ("OR" :> "Oregon")
    @@ ("PA" :> "Pennsylvania")
    @@ ("RI" :> "Rhode Island")
    @@ ("SC" :> "South Carolina")
    @@ ("SD" :> "South Dakota")
    @@ ("TN" :> "Tennessee")
    @@ ("TX" :> "Texas")
    @@ ("UT" :> "Utah")
    @@ ("VT" :> "Vermont")
    @@ ("VA" :> "Virginia")
    @@ ("WA" :> "Washington")
    @@ ("WV" :> "West Virginia")
    @@ ("WI" :> "Wisconsin")
    @@ ("WY" :> "Wyoming")
    @@ ("DC" :> "Washington D.C.")
STATE_ABBREVIATIONS == DOMAIN STATE_CENTROIDS

(***************************************************************************)
(* Values standing for Python's None (a missing text cell) and for NaN in  *)
(* a numeric cell.                                                         *)
(***************************************************************************)
NoValue == "<None>"
NaN == -1

(***************************************************************************)
(* The spelling of every text the model handles: the state codes, the      *)
(* state names, the location texts of the sample leads, and every code in  *)
(* lower case with a trailing blank.                                       *)
(***************************************************************************)
Chars ==
    ("AL" :> <<"A", "L">>)
    @@ ("AK" :> <<"A", "K">>)
    @@ ("AZ" :> <<"A", "Z">>)
    @@ ("AR" :> <<"A", "R">>)
    @@ ("CA" :> <<"C", "A">>)
    @@ ("CO" :> <<"C", "O">>)
    @@ ("CT" :> <<"C", "T">>)
    @@ ("DE" :> <<"D", "E">>)
    @@ ("FL" :> <<"F", "L">>)
    @@ ("GA" :> <<"G", "A">>)
    @@ ("HI" :> <<"H", "I">>)
    @@ ("ID" :> <<"I", "D">>)
    @@ ("IL" :> <<"I", "L">>)
    @@ ("IN" :> <<"I", "N">>)
    @@ ("IA" :> <<"I", "A">>)
    @@ ("KS" :> <<"K", "S">>)
    @@ ("KY" :> <<"K", "Y">>)
    @@ ("LA" :> <<"L", "A">>)
    @@ ("ME" :> <<"M", "E">>)
    @@ ("MD" :> <<"M", "D">>)
    @@ ("MA" :> <<"M", "A">>)
    @@ ("MI" :> <<"M", "I">>)
    @@ ("MN" :> <<"M", "N">>)
    @@ ("MS" :> <<"M", "S">>)
    @@ ("MO" :> <<"M", "O">>)
    @@ ("MT" :> <<"M", "T">>)
    @@ ("NE" :> <<"N", "E">>)
    @@ ("NV" :> <<"N", "V">>)
    @@ ("NH" :> <<"N", "H">>)
    @@ ("NJ" :> <<"N", "J">>)
    @@ ("NM" :> <<"N", "M">>)
    @@ ("NY" :> <<"N", "Y">>)
    @@ ("NC" :> <<"N", "C">>)
    @@ ("ND" :> <<"N", "D">>)
    @@ ("OH" :> <<"O", "H">>)
    @@ ("OK" :> <<"O", "K">>)
    @@ ("OR" :> <<"O", "R">>)
    @@ ("PA" :> <<"P", "A">>)
    @@ ("RI" :> <<"R", "I">>)
    @@ ("SC" :> <<"S", "C">>)
    @@ ("SD" :> <<"S", "D">>)
    @@ ("TN" :> <<"T", "N">>)
    @@ ("TX" :> <<"T", "X">>)
    @@ ("UT" :> <<"U", "T">>)
    @@ ("VT" :> <<"V", "T">>)
    @@ ("VA" :> <<"V", "A">>)
    @@ ("WA" :> <<"W", "A">>)
    @@ ("WV" :> <<"W", "V">>)
    @@ ("WI" :> <<"W", "I">>)
    @@ ("WY" :> <<"W", "Y">>)
    @@ ("DC" :> <<"D", "C">>)
    @@ ("Alabama" :> <<"A", "l", "a", "b", "a", "m", "a">>)
    @@ ("Alaska" :> <<"A", "l", "a", "s", "k", "a">>)
    @@ ("Arizona" :> <<"A", "r", "i", "z", "o", "n", "a">>)
    @@ ("Arkansas" :> <<"A", "r", "k", "a", "n", "s", "a", "s">>)
    @@ ("California" :> <<"C", "a", "l", "i", "f", "o", "r", "n", "i", "a">>)
    @@ ("Colorado" :> <<"C", "o", "l", "o", "r", "a", "d", "o">>)
    @@ ("Connecticut" :> <<"C", "o", "n", "n", "e", "c", "t", "i", "c", "u", "t">>)
    @@ ("Delaware" :> <<"D", "e", "l", "a", "w", "a", "r", "e">>)
    @@ ("Florida" :> <<"F", "l", "o", "r", "i", "d", "a">>)
    @@ ("Georgia" :> <<"G", "e", "o", "r", "g", "i", "a">>)
    @@ ("Hawaii" :> <<"H", "a", "w", "a", "i", "i">>)
    @@ ("Idaho" :> <<"I", "d", "a", "h", "o">>)
    @@ ("Illinois" :> <<"I", "l", "l", "i", "n", "o", "i", "s">>)
    @@ ("Indiana" :> <<"I", "n", "d", "i", "a", "n", "a">>)
    @@ ("Iowa" :> <<"I", "o", "w", "a">>)
    @@ ("Kansas" :> <<"K", "a", "n", "s", "a", "s">>)
    @@ ("Kentucky" :> <<"K", "e", "n", "t", "u", "c", "k", "y">>)
    @@ ("Louisiana" :> <<"L", "o", "u", "i", "s", "i", "a", "n", "a">>)
    @@ ("Maine" :> <<"M", "a", "i", "n", "e">>)
    @@ ("Maryland" :> <<"M", "a", "r", "y", "l", "a", "n", "d">>)
    @@ ("Massachusetts" :> <<"M", "a", "s", "s", "a", "c", "h", "u", "s", "e", "t", "t", "s">>)
    @@ ("Michigan" :> <<"M", "i", "c", "h", "i", "g", "a", "n">>)
    @@ ("Minnesota" :> <<"M", "i", "n", "n", "e", "s", "o", "t", "a">>)
    @@ ("Mississippi" :> <<"M", "i", "s", "s", "i", "s", "s", "i", "p", "p", "i">>)
    @@ ("Missouri" :> <<"M", "i", "s", "s", "o", "u", "r", "i">>)
    @@ ("Montana" :> <<"M", "o", "n", "t", "a", "n", "a">>)
    @@ ("Nebraska" :> <<"N", "e", "b", "r", "a", "s", "k", "a">>)
    @@ ("Nevada" :> <<"N", "e", "v", "a", "d", "a">>)
    @@ ("New Hampshire" :> <<"N", "e", "w", " ", "H", "a", "m", "p", "s", "h", "i", "r", "e">>)
    @@ ("New Jersey" :> <<"N", "e", "w", " ", "J", "e", "r", "s", "e", "y">>)
    @@ ("New Mexico" :> <<"N", "e", "w", " ", "M", "e", "x", "i", "c", "o">>)
    @@ ("New York" :> <<"N", "e", "w", " ", "Y", "o", "r", "k">>)
    @@ ("North Carolina" :> <<"N", "o", "r", "t", "h", " ", "C", "a", "r", "o", "l", "i", "n", "a">>)
    @@ ("North Dakota" :> <<"N", "o", "r", "t", "h", " ", "D", "a", "k", "o", "t", "a">>)
    @@ ("Ohio" :> <<"O", "h", "i", "o">>)
    @@ ("Oklahoma" :> <<"O", "k", "l", "a", "h", "o", "m", "a">>)
    @@ ("Oregon" :> <<"O", "r", "e", "g", "o", "n">>)
    @@ ("Pennsylvania" :> <<"P", "e", "n", "n", "s", "y", "l", "v", "a", "n", "i", "a">>)
    @@ ("Rhode Island" :> <<"R", "h", "o", "d", "e", " ", "I", "s", "l", "a", "n", "d">>)
    @@ ("South Carolina" :> <<"S", "o", "u", "t", "h", " ", "C", "a", "r", "o", "l", "i", "n", "a">>)
    @@ ("South Dakota" :> <<"S", "o", "u", "t", "h", " ", "D", "a", "k", "o", "t", "a">>)
    @@ ("Tennessee" :> <<"T", "e", "n", "n", "e", "s", "s", "e", "e">>)
    @@ ("Texas" :> <<"T", "e", "x", "a", "s">>)
    @@ ("Utah" :> <<"U", "t", "a", "h">>)
    @@ ("Vermont" :> <<"V", "e", "r", "m", "o", "n", "t">>)
    @@ ("Virginia" :> <<"V", "i", "r", "g", "i", "n", "i", "a">>)
    @@ ("Washington" :> <<"W", "a", "s", "h", "i", "n", "g", "t", "o", "n">>)
    @@ ("West Virginia" :> <<"W", "e", "s", "t", " ", "V", "i", "r", "g", "i", "n", "i", "a">>)
    @@ ("Wisconsin" :> <<"W", "i", "s", "c", "o", "n", "s", "i", "n">>)
    @@ ("Wyoming" :> <<"W", "y", "o", "m", "i", "n", "g">>)
    @@ ("Washington D.C." :> <<"W", "a", "s", "h", "i", "n", "g", "t", "o", "n", " ", "D", ".", "C", ".">>)
    @@ ("" :> <<>>)
    @@ ("ca" :> <<"c", "a">>)
    @@ (" CA " :> <<" ", "C", "A", " ">>)
    @@ ("texas" :> <<"t", "e", "x", "a", "s">>)
    @@ ("123 Main" :> <<"1", "2", "3", " ", "M", "a", "i", "n">>)
    @@ ("washington d.c." :> <<"w", "a", "s", "h", "i", "n", "g", "t", "o", "n", " ", "d", ".", "c", ".">>)
    @@ ("new york" :> <<"n", "e", "w", " ", "y", "o", "r", "k">>)
    @@ (" ny" :> <<" ", "n", "y">>)
    @@ ("Ca" :> <<"C", "a">>)
    @@ ("Paris" :> <<"P", "a", "r", "i", "s">>)
    @@ ("NEW YORK" :> <<"N", "E", "W", " ", "Y", "O", "R", "K">>)
    @@ ("al " :> <<"a", "l", " ">>)
    @@ ("ak " :> <<"a", "k", " ">>)
    @@ ("az " :> <<"a", "z", " ">>)
    @@ ("ar " :> <<"a", "r", " ">>)
    @@ ("ca " :> <<"c", "a", " ">>)
    @@ ("co " :> <<"c", "o", " ">>)
    @@ ("ct " :> <<"c", "t", " ">>)
    @@ ("de " :> <<"d", "e", " ">>)
    @@ ("fl " :> <<"f", "l", " ">>)
    @@ ("ga " :> <<"g", "a", " ">>)
    @@ ("hi " :> <<"h", "i", " ">>)
    @@ ("id " :> <<"i", "d", " ">>)
    @@ ("il " :> <<"i", "l", " ">>)
    @@ ("in " :> <<"i", "n", " ">>)
    @@ ("ia " :> <<"i", "a", " ">>)
    @@ ("ks " :> <<"k", "s", " ">>)
    @@ ("ky " :> <<"k", "y", " ">>)
    @@ ("la " :> <<"l", "a", " ">>)
    @@ ("me " :> <<"m", "e", " ">>)
    @@ ("md " :> <<"m", "d", " ">>)
    @@ ("ma " :> <<"m", "a", " ">>)
    @@ ("mi " :> <<"m", "i", " ">>)
    @@ ("mn " :> <<"m", "n", " ">>)
    @@ ("ms " :> <<"m", "s", " ">>)
    @@ ("mo " :> <<"m", "o", " ">>)
    @@ ("mt " :> <<"m", "t", " ">>)
    @@ ("ne " :> <<"n", "e", " ">>)
    @@ ("nv " :> <<"n", "v", " ">>)
    @@ ("nh " :> <<"n", "h", " ">>)
    @@ ("nj " :> <<"n", "j", " ">>)
    @@ ("nm " :> <<"n", "m", " ">>)
    @@ ("ny " :> <<"n", "y", " ">>)
    @@ ("nc " :> <<"n", "c", " ">>)
    @@ ("nd " :> <<"n", "d", " ">>)
    @@ ("oh " :> <<"o", "h", " ">>)
    @@ ("ok " :> <<"o", "k", " ">>)
    @@ ("or " :> <<"o", "r", " ">>)
    @@ ("pa " :> <<"p", "a", " ">>)
    @@ ("ri " :> <<"r", "i", " ">>)
    @@ ("sc " :> <<"s", "c", " ">>)
    @@ ("sd " :> <<"s", "d", " ">>)
    @@ ("tn " :> <<"t", "n", " ">>)
    @@ ("tx " :> <<"t", "x", " ">>)
    @@ ("ut " :> <<"u", "t", " ">>)
    @@ ("vt " :> <<"v", "t", " ">>)
    @@ ("va " :> <<"v", "a", " ">>)
    @@ ("wa " :> <<"w", "a", " ">>)
    @@ ("wv " :> <<"w", "v", " ">>)
    @@ ("wi " :> <<"w", "i", " ">>)
    @@ ("wy " :> <<"w", "y", " ">>)
    @@ ("dc " :> <<"d", "c", " ">>)

Lowers == << "a", "b", "c", "d", "e", "f", "g", "h", "i", "j", "k", "l", "m",
             "n", "o", "p", "q", "r", "s", "t", "u", "v", "w", "x", "y", "z" >>
Uppers == << "A", "B", "C", "D", "E", "F", "G", "H", "I", "J", "K", "L", "M",
             "N", "O", "P", "Q", "R", "S", "T", "U", "V", "W", "X", "Y", "Z" >>

IsLower(c) == \E i \in DOMAIN Lowers : Lowers[i] = c
IsUpper(c) == \E i \in DOMAIN Uppers : Uppers[i] = c
IsCased(c) == IsLower(c) \/ IsUpper(c)
UpperChar(c) == IF IsLower(c) THEN Uppers[CHOOSE i \in DOMAIN Lowers : Lowers[i] = c] ELSE c
LowerChar(c) == IF IsUpper(c) THEN Lowers[CHOOSE i \in DOMAIN Uppers : Uppers[i] = c] ELSE c

\* str.strip(): leading and trailing blanks removed.
RECURSIVE LStrip(_)
LStrip(t) == IF t # << >> /\ Head(t) = " " THEN LStrip(Tail(t)) ELSE t
RECURSIVE RStrip(_)
RStrip(t) == IF t # << >> /\ t[Len(t)] = " " THEN RStrip(SubSeq(t, 1, Len(t) - 1)) ELSE t
StrStrip(t) == RStrip(LStrip(t))

\* str.upper(): every cased character in upper case.
StrUpper(t) == [i \in DOMAIN t |-> UpperChar(t[i])]

\* str.title(): a cased character is upper case when it follows an uncased
\* character (or starts the text) and lower case otherwise.
StrTitle(t) ==
    [i \in DOMAIN t |->
        IF i = 1 \/ ~IsCased(t[i - 1]) THEN UpperChar(t[i]) ELSE LowerChar(t[i])]

\* The members of a table of texts spelled t ("t in TABLE", line 229 and 231).
Spelled(t, table) == { s \in table : Chars[s] = t }

(***************************************************************************)
(* remap_lead_source (lines 214-218), for one cell: a value of the allowed *)
(* list is kept, any other value, None included, becomes "Other".          *)
(***************************************************************************)
\* remap_lead_source letting a missing value through.
remap_lead_source_keep_none(x) ==
    IF x \in ALLOWED_LEAD_SOURCES \/ x = NoValue THEN x ELSE "Other"

remap_lead_source(x) == IF x \in ALLOWED_LEAD_SOURCES THEN x ELSE "Other"

(***************************************************************************)
(* determine_state (lines 220-236).  MatchField is the body of the loop    *)
(* for one field: the code the field yields, or NoValue when the loop goes *)
(* on to the next field.  A field that is not a text (None) is skipped.    *)
(***************************************************************************)
LocationFields == << "State", "Lead_State_Province__c", "Street" >>

MatchField(value) ==
    IF value = NoValue THEN NoValue
    ELSE LET v == StrStrip(Chars[value])
         IN  IF Spelled(StrUpper(v), STATE_ABBREVIATIONS) # {}
             THEN CHOOSE c \in STATE_ABBREVIATIONS : Chars[c] = StrUpper(v)
             ELSE IF Spelled(StrTitle(v), FULL_STATE_NAMES) # {}
             THEN LET name == CHOOSE n \in FULL_STATE_NAMES : Chars[n] = StrTitle(v)
                      abbrs == { a \in DOMAIN STATE_ABBR_TO_NAME : STATE_ABBR_TO_NAME[a] = name }
                  IN  IF abbrs # {} THEN CHOOSE a \in abbrs : TRUE ELSE NoValue
             ELSE NoValue

\* determine_state returning the last field's match instead of the first's.
determine_state_last_match(row) ==
    LET hits == { i \in DOMAIN LocationFields : MatchField(row[LocationFields[i]]) # NoValue }
    IN  IF hits = {} THEN NoValue
        ELSE MatchField(row[LocationFields[CHOOSE i \in hits : \A j \in hits : i >= j]])

determine_state(row) ==
    LET hits == { i \in DOMAIN LocationFields : MatchField(row[LocationFields[i]]) # NoValue }
    IN  IF hits = {} THEN NoValue
        ELSE MatchField(row[LocationFields[CHOOSE i \in hits : \A j \in hits : i <= j]])

(***************************************************************************)
(* Dates.  CreatedDate is compared by calendar day (.dt.date, lines        *)
(* 566-567), its year by .dt.year (line 369, 543) and its month by         *)
(* .dt.month / .dt.month_name() (lines 639-640).                           *)
(***************************************************************************)
YearOf(d) == d \div 10000
MonthOf(d) == (d \div 100) % 100
DayOf(d) == d % 100

month_order == << "January", "February", "March", "April", "May", "June",
                  "July", "August", "September", "October", "November", "December" >>
MonthName(d) == month_order[MonthOf(d)]

\* strftime('%d-%b-%Y') (line 877): the day-month-year text, coded as the
\* integer ddmmyyyy; it differs from the yyyymmdd code of the timestamp.
StrfTime(d) == DayOf(d) * 1000000 + MonthOf(d) * 10000 + YearOf(d)

\* The link text written over Id (lines 883-886), coded as an integer that
\* is no record id.
LinkOf(id) == 1000 + id

\* int(text) (line 542): the texts int() accepts are the decimal numerals;
\* IntTexts is the range of numerals the model tells apart, Numeral[n] the
\* text str(n) of each (line 371).
IntTexts == 1990 .. 2040
Numeral == [n \in IntTexts |-> ToString(n)]
IsIntText(s) == \E n \in IntTexts : Numeral[n] = s
IntOf(s) == CHOOSE n \in IntTexts : Numeral[n] = s

(***************************************************************************)
(* Generic sequence helpers.                                               *)
(***************************************************************************)
Range(s) == { s[i] : i \in DOMAIN s }
Contains(s, x) == \E i \in DOMAIN s : s[i] = x
RemoveAt(s, i) == SubSeq(s, 1, i - 1) \o SubSeq(s, i + 1, Len(s))

\* groupby(...).size() (lines 641, 706, 709): the number of rows of a group.
size(group) == Len(group)

\* One enumeration of a finite set (the order in which a user picked them).
RECURSIVE SeqOf(_)
SeqOf(S) == IF S = {} THEN << >> ELSE LET x == CHOOSE y \in S : TRUE IN << x >> \o SeqOf(S \ {x})

(***************************************************************************)
(* What the record source can return (query_all, line 326): lead records   *)
(* as json_normalize lays them out (line 329), Owner.Name already under    *)
(* its later name OwnerName (line 335).  SampleLeads are the records the   *)
(* model draws from.                                                       *)
(***************************************************************************)
Lead(id, status, created, owner, source, product, state, province, street) ==
    [ Id |-> id, Status |-> status, CreatedDate |-> created, OwnerName |-> owner,
      LeadSource |-> source, Product__c |-> product,
      State |-> state, Lead_State_Province__c |-> province, Street |-> street ]

SampleLeads ==
    << Lead(1, "New",    20230115, "Ann",   "Website",           "P1",    "ca",    "",      ""),
       Lead(2, NoValue,  20240310, NoValue, "Bing",              NoValue, "",      "Texas", ""),
       Lead(3, "Closed", 20240311, "Bob",   "Indeed",            "P2",    "",      NoValue, "123 Main"),
       Lead(4, "Closed", 20230120, "Ann",   "Customer Referral", "P1",    NoValue, " CA ",  "Paris"),
       Lead(5, "New",    20230125, "Bob",   "Website",           "P2",    "Paris", "",      " ny") >>

MaxRecords == 2       \* the source returns at most this many leads in a session
MaxEvalRecords == 3   \* size of the record sets the evaluation is tried on

\* Subsequences of SampleLeads (index sets taken in order).
SubLeads(idx) == SelectSeq([i \in DOMAIN SampleLeads |-> [i |-> i, r |-> SampleLeads[i]]],
                        LAMBDA p : p.i \in idx)
LeadsAt(idx) == LET s == SubLeads(idx) IN [k \in DOMAIN s |-> s[k].r]

\* Responses of query_all: an exception, or the first n sample leads.
QueryResponses ==
    { [kind |-> "error", records |-> << >>] }
    \cup { [kind |-> "records", records |-> SubSeq(SampleLeads, 1, n)] : n \in 0 .. MaxRecords }

(***************************************************************************)
(* The normalisation inside fetch_and_process_lead_data (lines 334-340):   *)
(* LeadSource remapped, LeadState resolved, rows without a state dropped.  *)
(***************************************************************************)
WithLeadState(r) ==
    [ Id |-> r.Id, Status |-> r.Status, CreatedDate |-> r.CreatedDate,
      OwnerName |-> r.OwnerName, LeadSource |-> remap_lead_source(r.LeadSource),
      Product__c |-> r.Product__c, State |-> r.State,
      Lead_State_Province__c |-> r.Lead_State_Province__c, Street |-> r.Street,
      LeadState |-> determine_state(r) ]

\* The normalisation without dropna(subset=['LeadState']).
ProcessLeads_keep_all(records) ==
    [i \in DOMAIN records |-> WithLeadState(records[i])]

ProcessLeads(records) ==
    SelectSeq([i \in DOMAIN records |-> WithLeadState(records[i])],
           LAMBDA r : r.LeadState # NoValue)

(***************************************************************************)
(* Frames.  The session caches one frame, lead_data; None_ is the value    *)
(* before any frame is stored (line 963).  While a run works on a frame    *)
(* the model records whether it is the cached object itself (cached) or a  *)
(* new object: a column assignment writes into the object it is given, so  *)
(* it reaches the cache exactly when the frame is the cached object.       *)
(***************************************************************************)
None_ == [none |-> TRUE, rows |-> << >>]
DataFrame(rows) == [none |-> FALSE, rows |-> rows]

\* st.session_state.lead_data read as df_leads (line 1011): the cached object.
CachedFrame(data) == [rows |-> data.rows, cached |-> TRUE]

\* "df_filtered = df_leads" for "df_filtered = df_leads.copy()".
copy_as_alias(df) == df

\* DataFrame.copy() (line 537): a new object with the same rows.
copy(df) == [rows |-> df.rows, cached |-> FALSE]

\* df[mask] (lines 543-568): a new object holding the rows the mask keeps,
\* the mask given as the set of the rows it is true for.
Mask(df, kept) == [rows |-> SelectSeq(df.rows, LAMBDA r : r \in kept), cached |-> FALSE]

\* df[column] = ... (lines 639-640, 877, 884): the rows rewritten in place,
\* rows being the frame's rows with the new column values.
Assign(df, rows) == [df EXCEPT !.rows = rows]

empty(df) == df.rows = << >>

(***************************************************************************)
(* The options the sidebar offers, computed from the cached frame (lines   *)
(* 369-371, 396-398, 423-433, 458-459, 484-486).  The code sorts them for  *)
(* display; the model keeps the set.                                       *)
(***************************************************************************)
NotNull(rows, col) == { rows[i][col] : i \in DOMAIN rows } \ { NoValue }

years(rows) == { "All" } \cup { Numeral[YearOf(rows[i].CreatedDate)] : i \in DOMAIN rows }
owner_names(rows) == { "All" } \cup NotNull(rows, "OwnerName")
lead_sources(rows) == { "All" } \cup NotNull(rows, "LeadSource")
lead_status(rows) == { "All" } \cup NotNull(rows, "Status")
products(rows) == { "All" } \cup NotNull(rows, "Product__c")

Dimensions == { "year_selection", "owner_selection", "lead_source_selection",
                "lead_status_selection", "product_selection" }

Options(dim, rows) ==
    CASE dim = "year_selection" -> years(rows)
      [] dim = "owner_selection" -> owner_names(rows)
      [] dim = "lead_source_selection" -> lead_sources(rows)
      [] dim = "lead_status_selection" -> lead_status(rows)
      [] dim = "product_selection" -> products(rows)

\* min and max of CreatedDate (lines 514-523): the bounds of both date inputs.
MinDate(rows) == CHOOSE d \in { rows[i].CreatedDate : i \in DOMAIN rows } :
                    \A j \in DOMAIN rows : d <= rows[j].CreatedDate
MaxDate(rows) == CHOOSE d \in { rows[i].CreatedDate : i \in DOMAIN rows } :
                    \A j \in DOMAIN rows : d >= rows[j].CreatedDate

(***************************************************************************)
(* The five on_change callbacks (lines 377-385, 404-412, 439-447, 465-473, *)
(* 492-500).  Each reads its own key of the session state s, where the     *)
(* widget has just stored the submitted list, and rewrites that key.       *)
(***************************************************************************)
update_year(s) ==
    LET selected == s.year_selection
    IN  IF Contains(selected, "All")
        THEN IF Len(selected) > 1
             THEN [s EXCEPT !.year_selection = SelectSeq(selected, LAMBDA year : year # "All")]
             ELSE s
        ELSE IF selected = << >>
             THEN [s EXCEPT !.year_selection = << "All" >>]
             ELSE s

\* update_owner without its "elif not selected" branch.
update_owner_no_reset(s) ==
    LET selected == s.owner_selection
    IN  IF Contains(selected, "All") /\ Len(selected) > 1
        THEN [s EXCEPT !.owner_selection = SelectSeq(selected, LAMBDA owner : owner # "All")]
        ELSE s

update_owner(s) ==
    LET selected == s.owner_selection
    IN  IF Contains(selected, "All")
        THEN IF Len(selected) > 1
             THEN [s EXCEPT !.owner_selection = SelectSeq(selected, LAMBDA owner : owner # "All")]
             ELSE s
        ELSE IF selected = << >>
             THEN [s EXCEPT !.owner_selection = << "All" >>]
             ELSE s

update_lead_source(s) ==
    LET selected == s.lead_source_selection
    IN  IF Contains(selected, "All")
        THEN IF Len(selected) > 1
             THEN [s EXCEPT !.lead_source_selection =
                                SelectSeq(selected, LAMBDA source : source # "All")]
             ELSE s
        ELSE IF selected = << >>
             THEN [s EXCEPT !.lead_source_selection = << "All" >>]
             ELSE s

\* update_lead_status that also puts the owner filter back to All when it
\* puts its own emptied list back to All.
update_lead_status_reset_owner(s) ==
    LET selected == s.lead_status_selection
    IN  IF Contains(selected, "All")
        THEN IF Len(selected) > 1
             THEN [s EXCEPT !.lead_status_selection =
                                SelectSeq(selected, LAMBDA status : status # "All")]
             ELSE s
        ELSE IF selected = << >>
             THEN [s EXCEPT !.owner_selection = << "All" >>, !.lead_status_selection = << "All" >>]
             ELSE s

update_lead_status(s) ==
    LET selected == s.lead_status_selection
    IN  IF Contains(selected, "All")
        THEN IF Len(selected) > 1
             THEN [s EXCEPT !.lead_status_selection =
                                SelectSeq(selected, LAMBDA status : status # "All")]
             ELSE s
        ELSE IF selected = << >>
             THEN [s EXCEPT !.lead_status_selection = << "All" >>]
             ELSE s

\* update_product with "len(selected) > 2" for "len(selected) > 1".
update_product_off_by_one(s) ==
    LET selected == s.product_selection
    IN  IF Contains(selected, "All")
        THEN IF Len(selected) > 2
             THEN [s EXCEPT !.product_selection =
                                SelectSeq(selected, LAMBDA product : product # "All")]
             ELSE s
        ELSE IF selected = << >>
             THEN [s EXCEPT !.product_selection = << "All" >>]
             ELSE s

update_product(s) ==
    LET selected == s.product_selection
    IN  IF Contains(selected, "All")
        THEN IF Len(selected) > 1
             THEN [s EXCEPT !.product_selection =
                                SelectSeq(selected, LAMBDA product : product # "All")]
             ELSE s
        ELSE IF selected = << >>
             THEN [s EXCEPT !.product_selection = << "All" >>]
             ELSE s

\* The callback registered for a widget key (on_change=, lines 392-507).
on_change(dim, s) ==
    CASE dim = "year_selection" -> update_year(s)
      [] dim = "owner_selection" -> update_owner(s)
      [] dim = "lead_source_selection" -> update_lead_source(s)
      [] dim = "lead_status_selection" -> update_lead_status(s)
      [] dim = "product_selection" -> update_product(s)

(***************************************************************************)
(* filtering_section (lines 355-572), after the widgets: the two date      *)
(* inputs take their defaults the first time they are drawn (NoDate is a   *)
(* date input not drawn yet), an inverted range is reported, and the       *)
(* filters are applied one after the other to a copy of the cached frame.  *)
(* The result is the session (date inputs, notices) and the filtered frame.*)
(***************************************************************************)
NoDate == 0

date_input(value, default) == IF value = NoDate THEN default ELSE value

YearFilter(s, df) ==
    IF ~Contains(s.year_selection, "All")
    THEN IF \A i \in DOMAIN s.year_selection : IsIntText(s.year_selection[i])
         THEN LET selected_years == { IntOf(s.year_selection[i]) : i \in DOMAIN s.year_selection }
              IN  [df |-> Mask(df, { r \in Range(df.rows) : YearOf(r.CreatedDate) \in selected_years }),
                   error |-> {}]
         ELSE [df |-> df, error |-> { "Invalid year selection." }]
    ELSE [df |-> df, error |-> {}]

OwnerFilter(s, df) ==
    IF ~Contains(s.owner_selection, "All")
    THEN Mask(df, { r \in Range(df.rows) : r.OwnerName \in Range(s.owner_selection) })
    ELSE df

LeadSourceFilter(s, df) ==
    IF ~Contains(s.lead_source_selection, "All")
    THEN Mask(df, { r \in Range(df.rows) : r.LeadSource \in Range(s.lead_source_selection) })
    ELSE df

LeadStatusFilter(s, df) ==
    IF ~Contains(s.lead_status_selection, "All")
    THEN Mask(df, { r \in Range(df.rows) : r.Status \in Range(s.lead_status_selection) })
    ELSE df

ProductFilter(s, df) ==
    IF ~Contains(s.product_selection, "All")
    THEN Mask(df, { r \in Range(df.rows) : r.Product__c \in Range(s.product_selection) })
    ELSE df

\* The date mask with "<" for "<=" at the To Date.
DateRangeFilter_exclusive(date_from, date_to, df) ==
    IF date_from <= date_to
    THEN Mask(df, { r \in Range(df.rows) : r.CreatedDate >= date_from /\ r.CreatedDate < date_to })
    ELSE df

\* The date mask applied without the "date_from <= date_to" test.
DateRangeFilter_unchecked(date_from, date_to, df) ==
    Mask(df, { r \in Range(df.rows) : r.CreatedDate >= date_from /\ r.CreatedDate <= date_to })

DateRangeFilter(date_from, date_to, df) ==
    IF date_from <= date_to
    THEN Mask(df, { r \in Range(df.rows) : r.CreatedDate >= date_from /\ r.CreatedDate <= date_to })
    ELSE df

DateRangeError(date_from, date_to) ==
    IF date_from > date_to
    THEN { "'From Date' must be earlier than or equal to 'To Date'." }
    ELSE {}

filtering_section(s, df_leads) ==
    LET date_from == date_input(s.date_from, MinDate(df_leads.rows))
        date_to == date_input(s.date_to, MaxDate(df_leads.rows))
        df0 == copy(df_leads)
        y == YearFilter(s, df0)
        df5 == ProductFilter(s, LeadStatusFilter(s, LeadSourceFilter(s, OwnerFilter(s, y.df))))
        df_filtered == DateRangeFilter(date_from, date_to, df5)
    IN  [ s |-> [s EXCEPT !.date_from = date_from, !.date_to = date_to,
                          !.notices = @ \cup DateRangeError(date_from, date_to) \cup y.error],
          df_filtered |-> df_filtered ]

(***************************************************************************)
(* Aggregations.  A grouped count is the set of its rows; the order pandas *)
(* gives the rows of a count table is not modelled.                        *)
(***************************************************************************)
RECURSIVE SumCount(_)
SumCount(table) ==
    IF table = {} THEN 0
    ELSE LET row == CHOOSE r \in table : TRUE IN row.Count + SumCount(table \ {row})

\* Series.value_counts() (lines 589, 610): one row per value, missing
\* values left out (dropna=True is the default).
value_counts(rows, col) ==
    { [Value |-> v, Count |-> size(SelectSeq(rows, LAMBDA r : r[col] = v))] : v \in NotNull(rows, col) }

\* lead_analysis_charts (lines 578-628): the two count tables.
lead_analysis_charts(df_filtered) ==
    IF ~empty(df_filtered)
    THEN [ shown |-> { "status_counts", "lead_source_counts" },
           status_counts |-> value_counts(df_filtered.rows, "Status"),
           lead_source_counts |-> value_counts(df_filtered.rows, "LeadSource"),
           notices |-> {} ]
    ELSE [ shown |-> {}, status_counts |-> {}, lead_source_counts |-> {},
           notices |-> { "No lead records found for the selected filters." } ]

\* Lines 639-640: the two month columns written into the frame.
WithMonth(r) ==
    [Month |-> MonthName(r.CreatedDate), Month_Number |-> MonthOf(r.CreatedDate)] @@ r

\* groupby(['Month', 'Status']).size() (line 641): groups with a missing key
\* are left out (dropna=True is the default).
MonthStatusCounts(rows) ==
    { [Month |-> m, Status |-> st,
       Count |-> size(SelectSeq(rows, LAMBDA r : r.Month = m /\ r.Status = st))] :
        <<m, st>> \in { <<rows[i].Month, rows[i].Status>> :
                          i \in { j \in DOMAIN rows : rows[j].Status # NoValue } } }

\* "['Count'].count()" for "['Count'].sum()": the rows of a month counted.
MonthTotals_row_count(df_monthly) ==
    { [Month |-> m, Total |-> Cardinality({ r \in df_monthly : r.Month = m })] :
        m \in { r.Month : r \in df_monthly } }

\* groupby('Month')['Count'].sum() (line 644) over the count table.
MonthTotals(df_monthly) ==
    { [Month |-> m, Total |-> SumCount({ r \in df_monthly : r.Month = m })] :
        m \in { r.Month : r \in df_monthly } }

\* merge(df_month_totals, on='Month') (line 645).
MergeMonthTotals(df_monthly, df_month_totals) ==
    { [Month |-> r.Month, Status |-> r.Status, Count |-> r.Count, Total |-> t.Total] :
        <<r, t>> \in { p \in df_monthly \X df_month_totals : p[1].Month = p[2].Month } }

\* monthly_lead_distribution_chart (lines 630-689): the frame with its new
\* columns and the month-by-status table.
monthly_lead_distribution_chart(df_filtered) ==
    IF ~empty(df_filtered)
    THEN LET df == Assign(df_filtered, [i \in DOMAIN df_filtered.rows |-> WithMonth(df_filtered.rows[i])])
             df_monthly == MonthStatusCounts(df.rows)
         IN  [ df |-> df, shown |-> { "df_monthly" },
               df_monthly |-> MergeMonthTotals(df_monthly, MonthTotals(df_monthly)),
               notices |-> {} ]
    ELSE [ df |-> df_filtered, shown |-> {}, df_monthly |-> {},
           notices |-> { "No data available for the selected filters to generate the stacked bar chart." } ]

(***************************************************************************)
(* us_map_visualization (lines 691-861): the per-state table lead_pivot.   *)
(***************************************************************************)
SPECIFIC_LEAD_SOURCES == { "Google Leads - Website", "Website", "Indeed", "Other" }

\* groupby('LeadState').size() (line 706).
lead_counts_total(rows) ==
    { [LeadState |-> st, Total |-> size(SelectSeq(rows, LAMBDA r : r.LeadState = st))] :
        st \in NotNull(rows, "LeadState") }

\* groupby(['LeadState', 'LeadSource']).size(), then the rows of the four
\* displayed sources (lines 709-710).
lead_counts_sources(rows) ==
    LET grouped ==
          { [LeadState |-> st, LeadSource |-> src,
             Count |-> size(SelectSeq(rows, LAMBDA r : r.LeadState = st /\ r.LeadSource = src))] :
              <<st, src>> \in { <<rows[i].LeadState, rows[i].LeadSource>> :
                  i \in { j \in DOMAIN rows : rows[j].LeadState # NoValue
                                               /\ rows[j].LeadSource # NoValue } } }
    IN  { g \in grouped : g.LeadSource \in SPECIFIC_LEAD_SOURCES }

\* pivot(index='LeadState', columns='LeadSource', values='Count') (line 713):
\* one row per state of the table, one cell per source of the table, NaN
\* where the table has no row for the pair.
pivot(table) ==
    { [LeadState |-> st,
       cells |-> [src \in { g.LeadSource : g \in table } |->
                    IF \E g \in table : g.LeadState = st /\ g.LeadSource = src
                    THEN (CHOOSE g \in table : g.LeadState = st /\ g.LeadSource = src).Count
                    ELSE NaN]] :
        st \in { g.LeadState : g \in table } }

\* The pivot without ".fillna(0)".
fillna_missing(p) == p

\* .fillna(0) (line 713).
fillna(p) == { [row EXCEPT !.cells = [src \in DOMAIN @ |-> IF @[src] = NaN THEN 0 ELSE @[src]]] :
                 row \in p }

\* Lines 716-718: a displayed source with no column gets a column of 0.
EnsureSources(p) ==
    { [row EXCEPT !.cells = [src \in SPECIFIC_LEAD_SOURCES \cup DOMAIN @ |->
                                IF src \in DOMAIN @ THEN @[src] ELSE 0]] : row \in p }

\* merge(lead_counts_total, on='LeadState', how='left') (line 721).
MergeTotal(p, totals) ==
    { [LeadState |-> row.LeadState, cells |-> row.cells,
       Total |-> IF \E t \in totals : t.LeadState = row.LeadState
                 THEN (CHOOSE t \in totals : t.LeadState = row.LeadState).Total
                 ELSE NaN] : row \in p }

\* Lines 724-735: the display name (rows without one are dropped) and the
\* centroid, NaN when STATE_CENTROIDS has no entry for the code.
WithNameAndCentroid(p) ==
    { [LeadState |-> row.LeadState, cells |-> row.cells, Total |-> row.Total,
       State_Name |-> STATE_ABBR_TO_NAME[row.LeadState],
       lat |-> IF row.LeadState \in DOMAIN STATE_CENTROIDS
               THEN STATE_CENTROIDS[row.LeadState].lat ELSE NaN,
       lon |-> IF row.LeadState \in DOMAIN STATE_CENTROIDS
               THEN STATE_CENTROIDS[row.LeadState].lon ELSE NaN] :
        row \in { q \in p : q.LeadState \in DOMAIN STATE_ABBR_TO_NAME } }

us_map_visualization(df_filtered) ==
    WithNameAndCentroid(
        MergeTotal(EnsureSources(fillna(pivot(lead_counts_sources(df_filtered.rows)))),
                   lead_counts_total(df_filtered.rows)))

(***************************************************************************)
(* filtered_records_table (lines 863-947): CreatedDate and Id rewritten in *)
(* the frame, then the display columns taken.  The query selects neither   *)
(* FirstName nor LastName, so the 'Lead Name' column is never added; the   *)
(* pass-through column Name is not modelled.                               *)
(***************************************************************************)
display_columns == << "Id", "Product__c", "OwnerName", "Status", "LeadSource", "CreatedDate" >>

filtered_records_table(df_filtered) ==
    IF ~empty(df_filtered)
    THEN LET df1 == Assign(df_filtered, [i \in DOMAIN df_filtered.rows |->
                                   [df_filtered.rows[i] EXCEPT !.CreatedDate = StrfTime(@)]])
             df2 == Assign(df1, [i \in DOMAIN df1.rows |-> [df1.rows[i] EXCEPT !.Id = LinkOf(@)]])
         IN  [ df |-> df2, shown |-> { "df_display" },
               df_display |-> [i \in DOMAIN df2.rows |->
                                 [c \in Range(display_columns) |-> df2.rows[i][c]]],
               notices |-> {} ]
    ELSE [ df |-> df_filtered, shown |-> {}, df_display |-> << >>,
           notices |-> { "No records found for the selected filters." } ]

(***************************************************************************)
(* Login (lines 238-264, 277-308).  outcome is what SalesforceLogin does:  *)
(* "ok", "auth_failed" (SalesforceAuthenticationFailed) or "exception".    *)
(***************************************************************************)
LoginOutcomes == { "ok", "auth_failed", "exception" }

\* handle_login whose "except Exception" branch sets logged_in to True.
handle_login_exception_logs_in(s, outcome) ==
    CASE outcome = "ok" ->
           [s EXCEPT !.sf = "Salesforce", !.logged_in = TRUE,
                     !.login_message = "Logged in to Salesforce successfully!",
                     !.login_success = TRUE]
      [] outcome = "auth_failed" ->
           [s EXCEPT !.logged_in = FALSE,
                     !.login_message = "Authentication failed. Please check your credentials.",
                     !.login_success = FALSE]
      [] outcome = "exception" ->
           [s EXCEPT !.logged_in = TRUE, !.login_message = "An error occurred",
                     !.login_success = FALSE]

handle_login(s, outcome) ==
    CASE outcome = "ok" ->
           [s EXCEPT !.sf = "Salesforce", !.logged_in = TRUE,
                     !.login_message = "Logged in to Salesforce successfully!",
                     !.login_success = TRUE]
      [] outcome = "auth_failed" ->
           [s EXCEPT !.logged_in = FALSE,
                     !.login_message = "Authentication failed. Please check your credentials.",
                     !.login_success = FALSE]
      [] outcome = "exception" ->
           [s EXCEPT !.logged_in = FALSE, !.login_message = "An error occurred",
                     !.login_success = FALSE]

\* Lines 298-305 and 991-999: a pending login message is shown once and reset.
ShowLoginMessage(s) ==
    IF s.login_message # ""
    THEN [s EXCEPT !.notices = @ \cup { s.login_message },
                   !.login_message = "", !.login_success = FALSE]
    ELSE s

\* ev.click: the Login button was pressed; ev.credentials: all three
\* credential fields are filled in.
authentication_section(s, ev) ==
    IF ~s.logged_in
    THEN LET s1 == IF ev.click
                   THEN IF ev.credentials
                        THEN handle_login(s, ev.outcome)
                        ELSE [s EXCEPT !.notices = @ \cup { "Please provide all required credentials." }]
                   ELSE s
         IN  ShowLoginMessage(s1)
    ELSE s

(***************************************************************************)
(* fetch_and_process_lead_data (lines 314-349).  response is what          *)
(* query_all does in this run; queried records that the query was issued,  *)
(* lead_records what it answered (without a connection the call itself     *)
(* raises).                                                                *)
(***************************************************************************)
NotAsked == [kind |-> "none", records |-> << >>]

\* The answer as the run holds it: its records carry the fields the query
\* selects (lines 322-323).
Selected(response) ==
    [ kind |-> response.kind,
      records |-> [i \in DOMAIN response.records |->
                     LET r == response.records[i]
                     IN  Lead(r.Id, r.Status, r.CreatedDate, r.OwnerName, r.LeadSource,
                              r.Product__c, r.State, r.Lead_State_Province__c, r.Street)] ]

\* fetch_and_process_lead_data caching an empty frame when the query fails.
fetch_and_process_lead_data_cache_on_error(s, response) ==
    IF s.lead_data = None_
    THEN IF s.sf = "None" \/ response.kind = "error"
         THEN [s EXCEPT !.queried = TRUE,
                        !.lead_records = [kind |-> "error", records |-> << >>],
                        !.lead_data = DataFrame(<< >>),
                        !.notices = @ \cup { "An error occurred while fetching lead data" }]
         ELSE IF Len(response.records) > 0
              THEN [s EXCEPT !.queried = TRUE, !.lead_records = Selected(response),
                             !.lead_data = DataFrame(ProcessLeads(response.records))]
              ELSE [s EXCEPT !.queried = TRUE, !.lead_records = Selected(response),
                             !.notices = @ \cup { "No lead records found." }]
    ELSE s

fetch_and_process_lead_data(s, response) ==
    IF s.lead_data = None_
    THEN IF s.sf = "None" \/ response.kind = "error"
         THEN [s EXCEPT !.queried = TRUE,
                        !.lead_records = [kind |-> "error", records |-> << >>],
                        !.notices = @ \cup { "An error occurred while fetching lead data" }]
         ELSE IF Len(response.records) > 0
              THEN [s EXCEPT !.queried = TRUE, !.lead_records = Selected(response),
                             !.lead_data = DataFrame(ProcessLeads(response.records))]
              ELSE [s EXCEPT !.queried = TRUE, !.lead_records = Selected(response),
                             !.notices = @ \cup { "No lead records found." }]
    ELSE s

(***************************************************************************)
(* The dashboard (lines 1007-1037): the filters, then the views that are   *)
(* switched on, then the table, all on the frame filtering_section         *)
(* returns.  A view that writes columns hands the frame on to the next.    *)
(* If the frame the views wrote into is the cached object, the cache holds *)
(* what they wrote.                                                        *)
(***************************************************************************)
NoViews ==
    [ shown |-> {}, df_filtered |-> << >>, total_leads |-> 0, status_counts |-> {},
      lead_source_counts |-> {}, df_monthly |-> {}, lead_pivot |-> {}, df_display |-> << >> ]

dashboard(s) ==
    LET f == filtering_section(s, CachedFrame(s.lead_data))
        a == IF f.s.show_lead_analysis
             THEN lead_analysis_charts(f.df_filtered)
             ELSE [ shown |-> {}, status_counts |-> {}, lead_source_counts |-> {}, notices |-> {} ]
        m == IF f.s.show_monthly_distribution
             THEN monthly_lead_distribution_chart(f.df_filtered)
             ELSE [ df |-> f.df_filtered, shown |-> {}, df_monthly |-> {}, notices |-> {} ]
        u == IF f.s.show_us_map
             THEN [ shown |-> { "lead_pivot" }, lead_pivot |-> us_map_visualization(m.df) ]
             ELSE [ shown |-> {}, lead_pivot |-> {} ]
        t == filtered_records_table(m.df)
    IN  [f.s EXCEPT
           !.page = "dashboard",
           !.notices = @ \cup { "Data loaded successfully!" } \cup a.notices \cup m.notices
                         \cup t.notices,
           !.lead_data = IF t.df.cached THEN DataFrame(t.df.rows) ELSE @,
           !.views = [ shown |-> a.shown \cup m.shown \cup u.shown \cup t.shown,
                       df_filtered |-> f.df_filtered.rows,
                       total_leads |-> Len(f.df_filtered.rows),
                       status_counts |-> a.status_counts,
                       lead_source_counts |-> a.lead_source_counts,
                       df_monthly |-> m.df_monthly,
                       lead_pivot |-> u.lead_pivot,
                       df_display |-> t.df_display ]]

(***************************************************************************)
(* main (lines 953-1039): one run of the script on the session s with the  *)
(* event ev of this run.  What the run puts on the page is collected in    *)
(* page, notices and views; queried tells whether the run issued the query.*)
(***************************************************************************)
main(s, ev) ==
    LET s0 == [s EXCEPT !.page = "login", !.notices = {}, !.views = NoViews, !.queried = FALSE]
        s1 == authentication_section(s0, ev)
    IN  IF s1.logged_in
        THEN LET s2 == ShowLoginMessage(s1)
                 s3 == IF s2.lead_data = None_
                       THEN fetch_and_process_lead_data(s2, ev.response)
                       ELSE s2
             IN  IF s3.lead_data # None_ /\ s3.lead_data.rows # << >>
                 THEN dashboard(s3)
                 ELSE [s3 EXCEPT !.page = "no_data",
                                 !.notices = @ \cup { "No data available to display the dashboard." }]
        ELSE s1

(***************************************************************************)
(* The state: the keys of st.session_state (lines 958-977), the values of  *)
(* the sidebar's date inputs and checkboxes (lines 512-534), which the     *)
(* browser keeps between runs, what the last run put on the page, and     *)
(* lead_records, the last answer of query_all (line 326).                  *)
(***************************************************************************)
VARIABLES logged_in, sf, lead_data, login_message, login_success,
          year_selection, owner_selection, lead_source_selection,
          lead_status_selection, product_selection,
          date_from, date_to,
          show_lead_analysis, show_monthly_distribution, show_us_map,
          page, notices, views, queried, lead_records

vars == << logged_in, sf, lead_data, login_message, login_success,
           year_selection, owner_selection, lead_source_selection,
           lead_status_selection, product_selection,
           date_from, date_to,
           show_lead_analysis, show_monthly_distribution, show_us_map,
           page, notices, views, queried, lead_records >>

Session ==
    [ logged_in |-> logged_in, sf |-> sf, lead_data |-> lead_data,
      login_message |-> login_message, login_success |-> login_success,
      year_selection |-> year_selection, owner_selection |-> owner_selection,
      lead_source_selection |-> lead_source_selection,
      lead_status_selection |-> lead_status_selection,
      product_selection |-> product_selection,
      date_from |-> date_from, date_to |-> date_to,
      show_lead_analysis |-> show_lead_analysis,
      show_monthly_distribution |-> show_monthly_distribution,
      show_us_map |-> show_us_map,
      page |-> page, notices |-> notices, views |-> views, queried |-> queried,
      lead_records |-> lead_records ]

\* The session a run leaves behind.
Becomes(s) ==
    /\ logged_in' = s.logged_in
    /\ sf' = s.sf
    /\ lead_data' = s.lead_data
    /\ login_message' = s.login_message
    /\ login_success' = s.login_success
    /\ year_selection' = s.year_selection
    /\ owner_selection' = s.owner_selection
    /\ lead_source_selection' = s.lead_source_selection
    /\ lead_status_selection' = s.lead_status_selection
    /\ product_selection' = s.product_selection
    /\ date_from' = s.date_from
    /\ date_to' = s.date_to
    /\ show_lead_analysis' = s.show_lead_analysis
    /\ show_monthly_distribution' = s.show_monthly_distribution
    /\ show_us_map' = s.show_us_map
    /\ page' = s.page
    /\ notices' = s.notices
    /\ views' = s.views
    /\ queried' = s.queried
    /\ lead_records' = s.lead_records

\* The first run of a new session: lines 958-977 set every key, nobody is
\* logged in, the login form is drawn.
Init ==
    /\ logged_in = FALSE
    /\ sf = "None"
    /\ lead_data = None_
    /\ login_message = ""
    /\ login_success = FALSE
    /\ year_selection = << "All" >>
    /\ owner_selection = << "All" >>
    /\ lead_source_selection = << "All" >>
    /\ lead_status_selection = << "All" >>
    /\ product_selection = << "All" >>
    /\ date_from = NoDate
    /\ date_to = NoDate
    /\ show_lead_analysis = TRUE
    /\ show_monthly_distribution = TRUE
    /\ show_us_map = TRUE
    /\ page = "login"
    /\ notices = {}
    /\ views = NoViews
    /\ queried = FALSE
    /\ lead_records = NotAsked

NoClick(response) ==
    [click |-> FALSE, credentials |-> FALSE, outcome |-> "ok", response |-> response]
NoResponse == [kind |-> "error", records |-> << >>]

\* The Login button (line 291), with or without all credentials.
Login ==
    /\ ~logged_in
    /\ \E credentials \in BOOLEAN, outcome \in LoginOutcomes, response \in QueryResponses :
          Becomes(main(Session, [click |-> TRUE, credentials |-> credentials,
                                 outcome |-> outcome, response |-> response]))

\* What query_all can answer in a run; it is asked only by a run that finds
\* no frame cached (lines 318, 1002).
Responses == IF lead_data = None_ THEN QueryResponses ELSE { NoResponse }

\* A run nobody's edit caused (the page is reloaded in the same session).
Rerun ==
    \E response \in Responses : Becomes(main(Session, NoClick(response)))

\* What a user can leave in a multiselect by one edit: one more option
\* picked (it goes to the end of the list), one pick removed, or the list
\* cleared.
Submissions(selected, options) ==
    { Append(selected, o) : o \in options \ Range(selected) }
    \cup { RemoveAt(selected, i) : i \in DOMAIN selected }
    \cup { << >> }

\* The session left by the run that follows the list submitted being stored
\* under the widget's key dim: the on_change callback first, then main.
AfterSubmit(dim, submitted) ==
    main(on_change(dim, [Session EXCEPT ![dim] = submitted]), NoClick(NoResponse))

Submit(dim, submitted) ==
    /\ page = "dashboard"
    /\ Becomes(AfterSubmit(dim, submitted))

\* An edit of the multiselect with key dim (lines 387-393, 414-420, 449-455,
\* 475-481, 502-508), which offers the options offered.
Edit(dim, offered) ==
    \E submitted \in Submissions(Session[dim], offered) : Submit(dim, submitted)

EditYear == Edit("year_selection", years(lead_data.rows))
EditOwner == Edit("owner_selection", owner_names(lead_data.rows))
EditLeadSource == Edit("lead_source_selection", lead_sources(lead_data.rows))
EditLeadStatus == Edit("lead_status_selection", lead_status(lead_data.rows))
EditProduct == Edit("product_selection", products(lead_data.rows))

\* The dates a date input accepts lie between the first and the last
\* CreatedDate (min_value, max_value, lines 515-523); the model offers the
\* dates of the leads.
DateChoices == { lead_data.rows[i].CreatedDate : i \in DOMAIN lead_data.rows }

SetDateFrom ==
    /\ page = "dashboard"
    /\ \E d \in DateChoices :
          Becomes(main([Session EXCEPT !.date_from = d], NoClick(NoResponse)))

SetDateTo ==
    /\ page = "dashboard"
    /\ \E d \in DateChoices :
          Becomes(main([Session EXCEPT !.date_to = d], NoClick(NoResponse)))

\* The three checkboxes (lines 532-534).
ToggleLeadAnalysis ==
    /\ page = "dashboard"
    /\ Becomes(main([Session EXCEPT !.show_lead_analysis = ~@], NoClick(NoResponse)))

ToggleMonthlyDistribution ==
    /\ page = "dashboard"
    /\ Becomes(main([Session EXCEPT !.show_monthly_distribution = ~@], NoClick(NoResponse)))

ToggleUsMap ==
    /\ page = "dashboard"
    /\ Becomes(main([Session EXCEPT !.show_us_map = ~@], NoClick(NoResponse)))

Next ==
    \/ Login
    \/ Rerun
    \/ EditYear
    \/ EditOwner
    \/ EditLeadSource
    \/ EditLeadStatus
    \/ EditProduct
    \/ SetDateFrom
    \/ SetDateTo
    \/ ToggleLeadAnalysis
    \/ ToggleMonthlyDistribution
    \/ ToggleUsMap

Spec == Init /\ [][Next]_vars

(***************************************************************************)
(* The evaluation on its own.  SpecEval takes a session with leads loaded  *)
(* at the start of a run, before the run has drawn anything: any record    *)
(* set of at most MaxEvalRecords sample leads that survives the            *)
(* normalisation, every dimension on All or on some of its options, both   *)
(* date inputs on the first or the last date, every view switched on.  Its *)
(* one step is the run of the script.                                      *)
(***************************************************************************)
EvalFrames ==
    { DataFrame(ProcessLeads(LeadsAt(idx))) :
        idx \in { i \in SUBSET DOMAIN SampleLeads : Cardinality(i) <= MaxEvalRecords } }
    \ { DataFrame(<< >>) }

SelectionStates(options) ==
    { << "All" >> } \cup { SeqOf(c) : c \in (SUBSET (options \ { "All" })) \ { {} } }

InitEval ==
    /\ logged_in = TRUE
    /\ sf = "Salesforce"
    /\ \E idx \in SUBSET DOMAIN SampleLeads :
          /\ Cardinality(idx) <= MaxEvalRecords
          /\ lead_records = [kind |-> "records", records |-> LeadsAt(idx)]
    /\ lead_data = DataFrame(ProcessLeads(lead_records.records))
    /\ lead_data \in EvalFrames
    /\ login_message = ""
    /\ login_success = FALSE
    /\ year_selection \in SelectionStates(years(lead_data.rows))
    /\ owner_selection \in SelectionStates(owner_names(lead_data.rows))
    /\ lead_source_selection \in SelectionStates(lead_sources(lead_data.rows))
    /\ lead_status_selection \in SelectionStates(lead_status(lead_data.rows))
    /\ product_selection \in SelectionStates(products(lead_data.rows))
    /\ date_from \in { MinDate(lead_data.rows), MaxDate(lead_data.rows) }
    /\ date_to \in { MinDate(lead_data.rows), MaxDate(lead_data.rows) }
    /\ show_lead_analysis = TRUE
    /\ show_monthly_distribution = TRUE
    /\ show_us_map = TRUE
    /\ page = "login"
    /\ notices = {}
    /\ views = NoViews
    /\ queried = FALSE

NextEval == Rerun

SpecEval == InitEval /\ [][NextEval]_vars


(***************************************************************************)
(* The fetch on its own.  SpecFetch starts in the session a login leaves   *)
(* whose query failed: logged in, nothing cached, so the next run queries  *)
(* again (lines 318, 1002).  The Fetch actions are that run with an answer *)
(* of the record source: one lead whose three location fields and          *)
(* LeadSource are drawn from the texts below, or up to MaxEvalRecords of   *)
(* the sample leads.                                                       *)
(***************************************************************************)
RawSources ==
    ALLOWED_LEAD_SOURCES
    \cup { "Other", "Partner Event", "website", " Website", NoValue }

LocationTexts == DOMAIN Chars \cup { NoValue }
FewTexts == { "", NoValue, "Texas" }

RawLead(src, state, province, street) ==
    Lead(1, "New", 20230115, "Ann", src, "P1", state, province, street)

Answer(records) == [kind |-> "records", records |-> records]

\* The run of a session that has nothing cached, with query_all's answer.
Fetched(response) ==
    /\ logged_in
    /\ lead_data = None_
    /\ Becomes(main(Session, NoClick(response)))

InitFetch ==
    /\ logged_in = TRUE
    /\ sf = "Salesforce"
    /\ lead_data = None_
    /\ login_message = ""
    /\ login_success = FALSE
    /\ year_selection = << "All" >>
    /\ owner_selection = << "All" >>
    /\ lead_source_selection = << "All" >>
    /\ lead_status_selection = << "All" >>
    /\ product_selection = << "All" >>
    /\ date_from = NoDate
    /\ date_to = NoDate
    /\ show_lead_analysis = TRUE
    /\ show_monthly_distribution = TRUE
    /\ show_us_map = TRUE
    /\ page = "no_data"
    /\ notices = { "Logged in to Salesforce successfully!",
                   "An error occurred while fetching lead data",
                   "No data available to display the dashboard." }
    /\ views = NoViews
    /\ queried = TRUE
    /\ lead_records = [kind |-> "error", records |-> << >>]

\* One lead, one location field over every text, the other two over a few.
FetchLocation ==
    \E text \in LocationTexts, a \in FewTexts, b \in FewTexts, k \in 1 .. 3 :
        Fetched(Answer(<< CASE k = 1 -> RawLead("Website", text, a, b)
                            [] k = 2 -> RawLead("Website", a, text, b)
                            [] k = 3 -> RawLead("Website", a, b, text) >>))

\* One lead, LeadSource over the raw sources.
FetchSource ==
    \E src \in RawSources, a \in FewTexts, b \in FewTexts, c \in FewTexts :
        Fetched(Answer(<< RawLead(src, a, b, c) >>))

\* Up to MaxEvalRecords of the sample leads (none: totalSize is 0).
FetchSample ==
    \E idx \in SUBSET DOMAIN SampleLeads :
        /\ Cardinality(idx) <= MaxEvalRecords
        /\ Fetched(Answer(LeadsAt(idx)))

\* query_all raises.
FetchError == Fetched([kind |-> "error", records |-> << >>])

NextFetch ==
    \/ FetchSource
    \/ FetchSample
    \/ FetchError
    \/ FetchLocation
    \/ Rerun

SpecFetch == InitFetch /\ [][NextFetch]_vars

(***************************************************************************)
(* A session in which a submitted list is not confined to the options the  *)
(* widget offers: the callbacks take whatever list is stored under their   *)
(* key.  Unoffered are values no lead carries.  The views stay switched    *)
(* on.                                                                     *)
(***************************************************************************)
Unoffered(dim) ==
    CASE dim = "year_selection" -> { "n/a" }
      [] dim = "owner_selection" -> { "Zed" }
      [] OTHER -> {}

SubmitAny(dim) == Edit(dim, Options(dim, lead_data.rows) \cup Unoffered(dim))

SubmitAnyYear == SubmitAny("year_selection")
SubmitAnyOwner == SubmitAny("owner_selection")
SubmitAnyLeadSource == SubmitAny("lead_source_selection")
SubmitAnyLeadStatus == SubmitAny("lead_status_selection")
SubmitAnyProduct == SubmitAny("product_selection")

NextOpen ==
    \/ Login
    \/ Rerun
    \/ SubmitAnyYear
    \/ SubmitAnyOwner
    \/ SubmitAnyLeadSource
    \/ SubmitAnyLeadStatus
    \/ SubmitAnyProduct
    \/ SetDateFrom
    \/ SetDateTo

SpecOpen == Init /\ [][NextOpen]_vars

(***************************************************************************)
(* Properties.                                                             *)
(***************************************************************************)
IsAll(selection) == selection = << "All" >>
IsSubset(selection) == selection # << >> /\ ~Contains(selection, "All")

\* The field of a lead a dimension selects on, as the options spell it.
FieldOf(r, dim) ==
    CASE dim = "year_selection" -> Numeral[YearOf(r.CreatedDate)]
      [] dim = "owner_selection" -> r.OwnerName
      [] dim = "lead_source_selection" -> r.LeadSource
      [] dim = "lead_status_selection" -> r.Status
      [] dim = "product_selection" -> r.Product__c

PassesDimensions(r) ==
    \A dim \in Dimensions : IsAll(Session[dim]) \/ FieldOf(r, dim) \in Range(Session[dim])

PassesDate(r) ==
    date_from > date_to \/ (date_from <= r.CreatedDate /\ r.CreatedDate <= date_to)

\* C1: after any sequence of edits, each with its callback, every
\* dimension's selection is either All alone or a non-empty list of concrete
\* values without All; and before any lead is loaded every dimension is All.
C1_SelectionShape ==
    /\ \A dim \in Dimensions : IsAll(Session[dim]) \/ IsSubset(Session[dim])
    /\ lead_data = None_ => \A dim \in Dimensions : IsAll(Session[dim])

C1_Witness ==
    /\ year_selection = << "2023", "2024" >>
    /\ owner_selection = << "Ann" >>
    /\ lead_source_selection = << "Other" >>

\* C2: in every dimension, submitting {All, v} from All leaves exactly v
\* selected, and submitting the empty list from a concrete selection leaves
\* All, never an empty selection.
C2_AddAndClear ==
    page = "dashboard" =>
        \A dim \in Dimensions :
            /\ IsAll(Session[dim]) =>
                  \A v \in Options(dim, lead_data.rows) \ { "All" } :
                      AfterSubmit(dim, << "All", v >>)[dim] = << v >>
            /\ IsSubset(Session[dim]) => IsAll(AfterSubmit(dim, << >>)[dim])

C2_Witness ==
    /\ year_selection = << "2024" >>
    /\ product_selection = << "P1" >>
    /\ lead_status_selection = << "All" >>

\* C3: in every dimension, submitting {v, All} from the selection {v}
\* leaves All selected.
C3_ReselectAll ==
    page = "dashboard" =>
        \A dim \in Dimensions :
            \A v \in Options(dim, lead_data.rows) \ { "All" } :
                Session[dim] = << v >> => IsAll(AfterSubmit(dim, << v, "All" >>)[dim])

\* C4: the filtered frame holds exactly the leads that pass every one of the
\* five dimensions (the dimension is All, or the lead's field is among the
\* selected values) and the date range (inverted, or from <= date <= to),
\* in the order of the cached frame.
C4_FilteredExactly ==
    page = "dashboard" =>
        views.df_filtered = SelectSeq(lead_data.rows,
                                      LAMBDA r : PassesDimensions(r) /\ PassesDate(r))

C4_Witness ==
    /\ page = "dashboard"
    /\ IsSubset(year_selection) /\ IsSubset(owner_selection)
    /\ date_from < date_to
    /\ Len(lead_data.rows) = 2
    /\ Len(views.df_filtered) = 1

\* C5: with an inverted date range the run reports the range, applies the
\* five dimension filters and no date filter, and goes on to draw the
\* filtered leads.
C5_InvertedRange ==
    (page = "dashboard" /\ date_from > date_to) =>
        /\ "'From Date' must be earlier than or equal to 'To Date'." \in notices
        /\ views.df_filtered = SelectSeq(lead_data.rows, PassesDimensions)
        /\ views.total_leads = Len(views.df_filtered)
        /\ views.df_filtered # << >> => "df_display" \in views.shown

C5_Witness ==
    /\ page = "dashboard"
    /\ date_from > date_to
    /\ year_selection = << "2023" >>
    /\ Len(views.df_filtered) = 1
    /\ "df_display" \in views.shown

C7_CountsAddUp ==
    "status_counts" \in views.shown =>
        /\ SumCount(views.status_counts) = Len(views.df_filtered)
        /\ SumCount(views.lead_source_counts) = Len(views.df_filtered)

\* C8: in every row of the per-state table, Total is the sum of the four
\* displayed-source cells plus the number of the state's filtered leads
\* whose source is not displayed; every displayed source has a cell, and a
\* source the state has no lead for holds 0.
RECURSIVE SumCells(_, _)
SumCells(cells, sources) ==
    IF sources = {} THEN 0
    ELSE LET src == CHOOSE x \in sources : TRUE
         IN  cells[src] + SumCells(cells, sources \ {src})

C8_PivotTotals ==
    "lead_pivot" \in views.shown =>
        \A row \in views.lead_pivot :
            /\ SPECIFIC_LEAD_SOURCES \subseteq DOMAIN row.cells
            /\ \A src \in SPECIFIC_LEAD_SOURCES :
                  /\ row.cells[src] # NaN
                  /\ (\A i \in DOMAIN views.df_filtered :
                          ~(views.df_filtered[i].LeadState = row.LeadState
                            /\ views.df_filtered[i].LeadSource = src))
                         => row.cells[src] = 0
            /\ row.Total = SumCells(row.cells, SPECIFIC_LEAD_SOURCES)
                           + Cardinality({ i \in DOMAIN views.df_filtered :
                                             /\ views.df_filtered[i].LeadState = row.LeadState
                                             /\ views.df_filtered[i].LeadSource \notin SPECIFIC_LEAD_SOURCES })

C8_Witness ==
    /\ "lead_pivot" \in views.shown
    /\ \E row \in views.lead_pivot :
          /\ row.cells["Website"] = 1
          /\ row.cells["Indeed"] = 0
          /\ row.Total = 2

\* C9: every row of the month-by-status table carries as Total the sum of
\* the counts of all rows of its month.
C9_MonthTotals ==
    "df_monthly" \in views.shown =>
        \A row \in views.df_monthly :
            row.Total = SumCount({ r \in views.df_monthly : r.Month = row.Month })

C9_Witness ==
    /\ "df_monthly" \in views.shown
    /\ \E row \in views.df_monthly : row.Count = 2 /\ row.Total = 2
    /\ Len(views.df_filtered) = 2

\* C10: no run changes the cached leads once they are loaded, and a run on
\* the same selections, dates and switches as the run before draws the same
\* filtered leads and the same views.
SameInputs ==
    /\ page = "dashboard" /\ page' = "dashboard"
    /\ \A dim \in Dimensions : Session'[dim] = Session[dim]
    /\ date_from' = date_from /\ date_to' = date_to
    /\ show_lead_analysis' = show_lead_analysis
    /\ show_monthly_distribution' = show_monthly_distribution
    /\ show_us_map' = show_us_map

C10_CacheUntouched ==
    [][/\ lead_data # None_ => lead_data' = lead_data
       /\ SameInputs => views' = views]_vars

C10_Witness ==
    /\ page = "dashboard"
    /\ { "df_monthly", "df_display" } \subseteq views.shown
    /\ Len(views.df_filtered) = Len(lead_data.rows)
    /\ date_from > date_to
    /\ views.df_display[1].CreatedDate = StrfTime(lead_data.rows[1].CreatedDate)
    /\ views.df_display[1].Id = LinkOf(lead_data.rows[1].Id)

\* The raw record a canonical row was made from (Id is unique in an answer).
RawOf(r) == CHOOSE raw \in Range(lead_records.records) : raw.Id = r.Id

AllowedOrOther == ALLOWED_LEAD_SOURCES \cup { "Other" }

\* C11: every canonical lead's source is in the allowed set with Other; it
\* is the raw source when that is in the set (compared exactly) and Other
\* for every other raw value, a missing one included.
C11_SourceNormalised ==
    lead_data # None_ =>
        \A i \in DOMAIN lead_data.rows :
            LET r == lead_data.rows[i]
                raw == RawOf(r)
            IN  /\ r.LeadSource \in AllowedOrOther
                /\ raw.LeadSource \in AllowedOrOther => r.LeadSource = raw.LeadSource
                /\ raw.LeadSource \notin AllowedOrOther => r.LeadSource = "Other"

C11_Witness ==
    /\ lead_data # None_
    /\ lead_records.records # << >>
    /\ lead_records.records[1].LeadSource = " Website"
    /\ lead_data.rows # << >>
    /\ lead_data.rows[1].LeadSource = "Other"

\* Two texts that differ in case only.
SameText(t, u) ==
    /\ Len(t) = Len(u)
    /\ \A i \in DOMAIN t : LowerChar(t[i]) = LowerChar(u[i])

\* The codes a location value names: trimmed and up to case, it is one of
\* codes or the full name of a code.
CodesNamed(value, codes) ==
    IF value = NoValue THEN {}
    ELSE { c \in DOMAIN STATE_ABBR_TO_NAME :
             \/ c \in codes /\ SameText(StrStrip(Chars[value]), Chars[c])
             \/ SameText(StrStrip(Chars[value]), Chars[STATE_ABBR_TO_NAME[c]]) }

LocationOf(r) == << r.State, r.Lead_State_Province__c, r.Street >>

IsCode(value, c) == value # NoValue /\ StrUpper(StrStrip(Chars[value])) = Chars[c]

AllCodes == DOMAIN STATE_ABBR_TO_NAME

\* C13: every state of a canonical lead is one of the 51 codes, and a raw
\* lead with a location field that is, trimmed and in upper case, one of
\* the 51 codes, no earlier field naming a state, becomes a canonical lead
\* with that code.
C13_EveryCode ==
    /\ \A i \in DOMAIN lead_data.rows : lead_data.rows[i].LeadState \in AllCodes
    /\ \A j \in DOMAIN lead_records.records, c \in AllCodes, k \in 1 .. 3 :
          LET raw == lead_records.records[j]
          IN  (/\ IsCode(LocationOf(raw)[k], c)
               /\ \A e \in 1 .. k - 1 : CodesNamed(LocationOf(raw)[e], AllCodes) = {})
              => \E i \in DOMAIN lead_data.rows :
                     lead_data.rows[i].Id = raw.Id /\ lead_data.rows[i].LeadState = c

\* No location field of the raw lead names a code of STATE_ABBREVIATIONS or
\* a full state name.
Unresolvable(raw) ==
    \A k \in 1 .. 3 : CodesNamed(LocationOf(raw)[k], STATE_ABBREVIATIONS) = {}

C15_FetchOnce ==
    [][lead_records.kind = "records" => ~queried']_vars

\* C16: a run whose query raises caches no leads, shows the error and draws
\* no view; and every run of a logged-in session that has no leads cached
\* after a failed query issues the query again.
C16_FetchFailure ==
    /\ []((queried /\ lead_records.kind = "error") =>
              /\ lead_data = None_
              /\ "An error occurred while fetching lead data" \in notices
              /\ page = "no_data"
              /\ views = NoViews)
    /\ [][(logged_in /\ lead_data = None_ /\ lead_records.kind = "error") => queried']_vars

C16_Witness ==
    /\ queried
    /\ lead_records.kind = "error"
    /\ lead_data = None_
    /\ "Logged in to Salesforce successfully!" \notin notices

\* C17: every state that has a filtered lead has exactly one row in the
\* per-state table, and the row's Total is the number of the state's
\* filtered leads, whatever the sources of those leads are.
StateRows(st) == { row \in views.lead_pivot : row.LeadState = st }

C17_RowPerState ==
    "lead_pivot" \in views.shown =>
        \A i \in DOMAIN views.df_filtered :
            LET st == views.df_filtered[i].LeadState
            IN  /\ Cardinality(StateRows(st)) = 1
                /\ \A row \in StateRows(st) :
                      row.Total = Cardinality({ j \in DOMAIN views.df_filtered :
                                                  views.df_filtered[j].LeadState = st })

\* C18: every row of the per-state table has a display name and a centroid.
C18_NameAndCentroid ==
    "lead_pivot" \in views.shown =>
        \A row \in views.lead_pivot :
            /\ row.State_Name # NoValue
            /\ row.lat # NaN
            /\ row.lon # NaN

\* C19: the callback of one filter rewrites that filter's selection and no
\* other key of the session; and a run in which one filter's selection
\* changes leaves the other four selections, the cached leads and the login
\* state as they were.
CallbackKeepsOthers(dim, submitted) ==
    LET s == [Session EXCEPT ![dim] = submitted]
        t == on_change(dim, s)
    IN  \A key \in DOMAIN s \ { dim } : t[key] = s[key]

C19_OwnDimensionOnly ==
    /\ [](page = "dashboard" =>
              \A dim \in Dimensions :
                  \A submitted \in Submissions(Session[dim], Options(dim, lead_data.rows)) :
                      CallbackKeepsOthers(dim, submitted))
    /\ [][\A dim \in Dimensions :
              Session'[dim] # Session[dim] =>
                  /\ \A other \in Dimensions \ { dim } : Session'[other] = Session[other]
                  /\ lead_data' = lead_data
                  /\ logged_in' = logged_in
                  /\ sf' = sf]_vars

C19_Witness ==
    /\ page = "dashboard"
    /\ lead_status_selection = << "New" >>
    /\ owner_selection = << "Ann" >>
    /\ year_selection # << "All" >>

\* C20: a logged-in session holds a Salesforce connection; the lead query is
\* issued, leads are cached and the dashboard is drawn only in a logged-in
\* session; and the run of a failed login attempt leaves the session not
\* logged in, on the login form, with no query issued.
LoginFailures ==
    { "Authentication failed. Please check your credentials.", "An error occurred" }

C20_LoginGuards ==
    /\ logged_in => sf = "Salesforce"
    /\ queried => logged_in
    /\ lead_data # None_ => logged_in
    /\ (page # "login" \/ views # NoViews) => logged_in
    /\ notices \cap LoginFailures # {} =>
          /\ ~logged_in
          /\ sf = "None"
          /\ page = "login"
          /\ ~queried

C20_Witness ==
    /\ logged_in
    /\ sf = "Salesforce"
    /\ queried
    /\ page = "dashboard"
    /\ "Logged in to Salesforce successfully!" \in notices


=============================================================================
